---------------------------- MODULE Spec2Model ----------------------------
(***************************************************************************)
(* Return-eligibility tools of the e-commerce agent (src/tools.py).        *)
(*                                                                         *)
(* The order store is the DataFrame self.df, a sequence of order rows.     *)
(* Text that the code transforms character by character (order_id,         *)
(* customer_id, payment_method) is a sequence of one-character strings;    *)
(* text that is only compared after the normalisation of __init__          *)
(* (category, estado, product) is an atomic string.  A pandas Timestamp is *)
(* a calendar day number plus a time of day; datetime.date.today() is the  *)
(* variable today, a day number.  A returned f-string is a record: its     *)
(* kind names the return statement, its other fields are the values the    *)
(* f-string interpolates.                                                  *)
(***************************************************************************)
EXTENDS Integers, Sequences, FiniteSets, TLC

VARIABLES
    df,             \* self.df: the order rows, in storage order
    loaded,         \* the rows as __init__ left them (history of df)
    today,          \* datetime.date.today()
    pc,             \* per caller: "idle", or "smtp" inside the SMTP session
    frame,          \* per caller: the locals of its initiate_return_request
    ret,            \* the most recent return: the call and its value
    smtp_sessions,  \* how many times smtplib.SMTP_SSL was entered
    pedidos_df,     \* the table handed to Tools(...): headers and raw rows
    columns,        \* self.df.columns
    startup         \* Tools(...) not yet run, returned, or raised

vars == <<df, loaded, today, pc, frame, ret, smtp_sessions,
          pedidos_df, columns, startup>>

---------------------------------------------------------------------------
(* Bounds of the model *)

MaxToday == 1          \* today runs over 0..MaxToday
MaxSessions == 2       \* SMTP sessions opened in one behaviour
MaxOrders == 2         \* rows of the multi-row stores

Callers == {1, 2}

---------------------------------------------------------------------------
(* Text: str.upper, str.lower, str.strip *)

LowerLetters ==
    <<"a","b","c","d","e","f","g","h","i","j","k","l","m",
      "n","o","p","q","r","s","t","u","v","w","x","y","z">>

UpperLetters ==
    <<"A","B","C","D","E","F","G","H","I","J","K","L","M",
      "N","O","P","Q","R","S","T","U","V","W","X","Y","Z">>

Whitespace == {" ", "\t", "\n"}

SetMin(S) == CHOOSE x \in S : \A y \in S : x <= y

SetMax(S) == CHOOSE x \in S : \A y \in S : x >= y

upper_char(c) ==
    LET hit == {i \in 1..Len(LowerLetters) : LowerLetters[i] = c}
    IN  IF hit = {} THEN c ELSE UpperLetters[SetMin(hit)]

lower_char(c) ==
    LET hit == {i \in 1..Len(UpperLetters) : UpperLetters[i] = c}
    IN  IF hit = {} THEN c ELSE LowerLetters[SetMin(hit)]

upper(s) == [i \in 1..Len(s) |-> upper_char(s[i])]

lower(s) == [i \in 1..Len(s) |-> lower_char(s[i])]

strip(s) ==
    LET keep == {i \in 1..Len(s) : s[i] \notin Whitespace}
    IN  IF keep = {} THEN <<>> ELSE SubSeq(s, SetMin(keep), SetMax(keep))

---------------------------------------------------------------------------
(* Dates *)

\* Timestamp.date(): the calendar day, the time of day dropped
date(ts) == ts.day

\* (datetime.date.today() - order_date).days
days_between(now, order_day) == now - order_day

---------------------------------------------------------------------------
(* The values the rows and the inputs are drawn from *)

O1 == <<"O","1">>
O2 == <<"O","2">>
C1 == <<"C","1">>
C2 == <<"C","2">>

Categories == {"general", "higiene", "software", "tarjetas de regalo", "personalizado"}

Estados == {"devuelto", "sin enviar", "enviado", "recibido", "cancelado"}

PaymentMethods ==
    { <<"e","f","e","c","t","i","v","o">>,
      <<"E","f","e","c","t","i","v","o">>,
      <<"t","a","r","j","e","t","a">> }

Prices == {50000, 12500}

Quantities == {1, 2}

OrderDays == {-45, -31, -30, -29, -3, 1}

TimesOfDay == {"00:00:00", "18:30:00"}

Timestamps == [day : OrderDays, time : TimesOfDay]

NoReturn == [op |-> "none"]

NoFrame == [order_id |-> <<>>]

---------------------------------------------------------------------------
(* Tools.__init__ *)

col_order_id == <<"o","r","d","e","r","_","i","d">>
col_customer_id == <<"c","u","s","t","o","m","e","r","_","i","d">>
col_product == <<"p","r","o","d","u","c","t">>
col_category == <<"c","a","t","e","g","o","r","y">>
col_price == <<"p","r","i","c","e">>
col_quantity == <<"q","u","a","n","t","i","t","y">>
col_order_date == <<"o","r","d","e","r","_","d","a","t","e">>
col_payment_method ==
    <<"p","a","y","m","e","n","t","_","m","e","t","h","o","d">>
col_estado == <<"e","s","t","a","d","o">>

\* The columns the docstring of __init__ lists
DocumentedColumns ==
    {col_order_id, col_customer_id, col_product, col_category, col_price,
     col_quantity, col_order_date, col_payment_method, col_estado}

\* self.df.columns = [c.lower().strip() for c in self.df.columns]
normalized_columns(headers) == {strip(lower(h)) : h \in headers}

\* The columns __init__ subscripts, in the order of its statements
InitReads == <<col_product, col_category, col_estado, col_order_date>>

\* A cell of order_date whose text pd.to_datetime cannot parse: it has the
\* shape of the other cells, and no day
Unparseable == [day |-> 0, time |-> "pronto"]

\* What Tools(pedidos_df) does: it returns, or one of its statements raises
tools_init(source) ==
    LET cols == normalized_columns(source.headers)
        absent == {k \in 1..Len(InitReads) : InitReads[k] \notin cols}
    IN  IF absent # {} THEN
            [state |-> "failed", error |-> "KeyError",
             key |-> InitReads[SetMin(absent)]]
        ELSE IF \E i \in 1..Len(source.rows) :
                    source.rows[i].order_date = Unparseable THEN
            [state |-> "failed", error |-> "ValueError"]
        ELSE [state |-> "built"]

\* The texts of product, category and estado that the rows below hold, with
\* their spelling character by character
Spelled ==
    { <<"recibido", <<"r","e","c","i","b","i","d","o">> >>,
      <<"general", <<"g","e","n","e","r","a","l">> >>,
      <<"bolsa de tela",
        <<"b","o","l","s","a"," ","d","e"," ","t","e","l","a">> >> }

\* .astype(str).str.lower().str.strip() on a cell of product, category or
\* estado
lower_strip_cell(cell) ==
    LET hit == {p \in Spelled : p[2] = strip(lower(cell))}
    IN  IF hit = {} THEN "otro" ELSE (CHOOSE p \in hit : TRUE)[1]

\* Lines 21-26 on one row: three text columns normalised, the date parsed
normalized_row(row) ==
    [row EXCEPT !.product = lower_strip_cell(row.product),
                !.category = lower_strip_cell(row.category),
                !.estado = lower_strip_cell(row.estado)]

\* A column is read where self.df lacks it
KeyError(column) == [kind |-> "KeyError", key |-> column]

\* The first of the columns reads, in reading order, that cols lacks
first_absent(reads, cols) ==
    LET absent == {k \in 1..Len(reads) : reads[k] \notin cols}
    IN  IF absent = {} THEN <<>> ELSE reads[SetMin(absent)]

---------------------------------------------------------------------------
(* evaluate_return_eligibility *)

\* Variant: the list of non-returnable categories lacks "software"
categorias_sin_software == {"higiene", "tarjetas de regalo"}

categorias_no_devolucion == {"higiene", "software", "tarjetas de regalo"}

WindowDays == 30

\* Variant: the 30th day is already outside the window
window_expired_inclusive(days_since_order) == days_since_order >= WindowDays

window_expired(days_since_order) == days_since_order > WindowDays

\* Variant: the quantity is left out of the total
refund_total_unit_price(pedido) == pedido.price

refund_total(pedido) == pedido.price * pedido.quantity

\* Variant: the identifier is trimmed but its case is kept
strip_only(text) == strip(text)

\* order_id.upper().strip(), customer_id.upper().strip()
upper_strip(text) == strip(upper(text))

\* self.df[self.df["order_id"] == order_id]
rows_with_order_id(d, order_id) == SelectSeq(d, LAMBDA r : r.order_id = order_id)

\* The conditions the code evaluates, in the order it evaluates them
RuleChain ==
    <<"AlreadyReturned", "NotShipped", "InTransit", "CategoryExcluded",
      "WindowExpired", "PersonalizedReviewRequired", "CashPaymentReviewRequired">>

\* Variant: the personalizado test runs before the window test
eligibility_personalizado_first(pedido, order_id, now) ==
    LET estado == pedido.estado
        categoria == pedido.category
        order_date == date(pedido.order_date)
        days_since_order == days_between(now, order_date)
        payment_method == lower(pedido.payment_method)
    IN  IF estado = "devuelto" THEN
            [kind |-> "AlreadyReturned", order_id |-> order_id,
             evaluated |-> SubSeq(RuleChain, 1, 1)]
        ELSE IF estado = "sin enviar" THEN
            [kind |-> "NotShipped", order_id |-> order_id,
             evaluated |-> SubSeq(RuleChain, 1, 2)]
        ELSE IF estado = "enviado" THEN
            [kind |-> "InTransit", order_id |-> order_id,
             evaluated |-> SubSeq(RuleChain, 1, 3)]
        ELSE IF categoria \in categorias_no_devolucion THEN
            [kind |-> "CategoryExcluded", product |-> pedido.product,
             category |-> categoria, evaluated |-> SubSeq(RuleChain, 1, 4)]
        ELSE IF categoria = "personalizado" THEN
            [kind |-> "PersonalizedReviewRequired", product |-> pedido.product,
             days_since_order |-> days_since_order,
             evaluated |-> SubSeq(RuleChain, 1, 6)]
        ELSE IF window_expired(days_since_order) THEN
            [kind |-> "WindowExpired", days_since_order |-> days_since_order,
             order_date |-> order_date, evaluated |-> SubSeq(RuleChain, 1, 5)]
        ELSE IF payment_method = <<"e","f","e","c","t","i","v","o">> THEN
            [kind |-> "CashPaymentReviewRequired", order_id |-> order_id,
             product |-> pedido.product, days_since_order |-> days_since_order,
             evaluated |-> SubSeq(RuleChain, 1, 7)]
        ELSE
            [kind |-> "Eligible", order_id |-> order_id,
             product |-> pedido.product, days_since_order |-> days_since_order,
             payment_method |-> pedido.payment_method,
             total |-> refund_total(pedido),
             evaluated |-> SubSeq(RuleChain, 1, 7)]

\* Variant: the category test runs before the estado tests
eligibility_category_first(pedido, order_id, now) ==
    LET estado == pedido.estado
        categoria == pedido.category
        order_date == date(pedido.order_date)
        days_since_order == days_between(now, order_date)
        payment_method == lower(pedido.payment_method)
    IN  IF categoria \in categorias_no_devolucion THEN
            [kind |-> "CategoryExcluded", product |-> pedido.product,
             category |-> categoria, evaluated |-> SubSeq(RuleChain, 1, 4)]
        ELSE IF estado = "devuelto" THEN
            [kind |-> "AlreadyReturned", order_id |-> order_id,
             evaluated |-> SubSeq(RuleChain, 1, 1)]
        ELSE IF estado = "sin enviar" THEN
            [kind |-> "NotShipped", order_id |-> order_id,
             evaluated |-> SubSeq(RuleChain, 1, 2)]
        ELSE IF estado = "enviado" THEN
            [kind |-> "InTransit", order_id |-> order_id,
             evaluated |-> SubSeq(RuleChain, 1, 3)]
        ELSE IF window_expired(days_since_order) THEN
            [kind |-> "WindowExpired", days_since_order |-> days_since_order,
             order_date |-> order_date, evaluated |-> SubSeq(RuleChain, 1, 5)]
        ELSE IF categoria = "personalizado" THEN
            [kind |-> "PersonalizedReviewRequired", product |-> pedido.product,
             days_since_order |-> days_since_order,
             evaluated |-> SubSeq(RuleChain, 1, 6)]
        ELSE IF payment_method = <<"e","f","e","c","t","i","v","o">> THEN
            [kind |-> "CashPaymentReviewRequired", order_id |-> order_id,
             product |-> pedido.product, days_since_order |-> days_since_order,
             evaluated |-> SubSeq(RuleChain, 1, 7)]
        ELSE
            [kind |-> "Eligible", order_id |-> order_id,
             product |-> pedido.product, days_since_order |-> days_since_order,
             payment_method |-> pedido.payment_method,
             total |-> refund_total(pedido),
             evaluated |-> SubSeq(RuleChain, 1, 7)]

eligibility_of(pedido, order_id, now) ==
    LET estado == pedido.estado
        categoria == pedido.category
        order_date == date(pedido.order_date)
        days_since_order == days_between(now, order_date)
        payment_method == lower(pedido.payment_method)
    IN  IF estado = "devuelto" THEN
            [kind |-> "AlreadyReturned", order_id |-> order_id,
             evaluated |-> SubSeq(RuleChain, 1, 1)]
        ELSE IF estado = "sin enviar" THEN
            [kind |-> "NotShipped", order_id |-> order_id,
             evaluated |-> SubSeq(RuleChain, 1, 2)]
        ELSE IF estado = "enviado" THEN
            [kind |-> "InTransit", order_id |-> order_id,
             evaluated |-> SubSeq(RuleChain, 1, 3)]
        ELSE IF categoria \in categorias_no_devolucion THEN
            [kind |-> "CategoryExcluded", product |-> pedido.product,
             category |-> categoria, evaluated |-> SubSeq(RuleChain, 1, 4)]
        ELSE IF window_expired(days_since_order) THEN
            [kind |-> "WindowExpired", days_since_order |-> days_since_order,
             order_date |-> order_date, evaluated |-> SubSeq(RuleChain, 1, 5)]
        ELSE IF categoria = "personalizado" THEN
            [kind |-> "PersonalizedReviewRequired", product |-> pedido.product,
             days_since_order |-> days_since_order,
             evaluated |-> SubSeq(RuleChain, 1, 6)]
        ELSE IF payment_method = <<"e","f","e","c","t","i","v","o">> THEN
            [kind |-> "CashPaymentReviewRequired", order_id |-> order_id,
             product |-> pedido.product, days_since_order |-> days_since_order,
             evaluated |-> SubSeq(RuleChain, 1, 7)]
        ELSE
            [kind |-> "Eligible", order_id |-> order_id,
             product |-> pedido.product, days_since_order |-> days_since_order,
             payment_method |-> pedido.payment_method,
             total |-> refund_total(pedido),
             evaluated |-> SubSeq(RuleChain, 1, 7)]

evaluate_return_eligibility(d, order_id_arg, now) ==
    LET order_id == upper_strip(order_id_arg)
        pedido == rows_with_order_id(d, order_id)
    IN  IF pedido = <<>>
        THEN [kind |-> "NotFound", order_id |-> order_id, evaluated |-> <<>>]
        ELSE eligibility_of(pedido[1], order_id, now)

---------------------------------------------------------------------------
(* search_customer_orders *)

\* self.df[self.df["customer_id"] == customer_id]
rows_with_customer_id(d, customer_id) ==
    SelectSeq(d, LAMBDA r : r.customer_id = customer_id)

\* Variant: the listing stops before the customer's last order
order_lines_but_last(pedidos, now) ==
    [i \in 1..(Len(pedidos) - 1) |->
        [order_id |-> pedidos[i].order_id,
         product |-> pedidos[i].product,
         estado |-> pedidos[i].estado,
         total |-> pedidos[i].price * pedidos[i].quantity,
         order_date |-> date(pedidos[i].order_date),
         days_ago |-> days_between(now, date(pedidos[i].order_date))]]

\* for _, pedido in pedidos.iterrows(): one entry of the text per row
order_lines(pedidos, now) ==
    [i \in 1..Len(pedidos) |->
        [order_id |-> pedidos[i].order_id,
         product |-> pedidos[i].product,
         estado |-> pedidos[i].estado,
         total |-> pedidos[i].price * pedidos[i].quantity,
         order_date |-> date(pedidos[i].order_date),
         days_ago |-> days_between(now, date(pedidos[i].order_date))]]

search_customer_orders(d, customer_id_arg, now) ==
    LET customer_id == upper_strip(customer_id_arg)
        pedidos == rows_with_customer_id(d, customer_id)
    IN  IF pedidos = <<>>
        THEN [kind |-> "NotFound", customer_id |-> customer_id]
        ELSE [kind |-> "Orders", customer_id |-> customer_id,
              lines |-> order_lines(pedidos, now)]

---------------------------------------------------------------------------
(* initiate_return_request *)

\* Variant: only the three estados that evaluate rejects are rejected
initiate_checks_lenient(d, order_id_arg, customer_email, reason, now) ==
    LET order_id == upper_strip(order_id_arg)
        found == rows_with_order_id(d, order_id)
    IN  IF found = <<>> THEN
            [kind |-> "NotFound", order_id |-> order_id]
        ELSE
            LET pedido == found[1]
                estado == pedido.estado
                categoria == pedido.category
                order_date == date(pedido.order_date)
                days_since_order == days_between(now, order_date)
            IN  IF estado \in {"devuelto", "sin enviar", "enviado"} THEN
                    [kind |-> "InvalidStatus", order_id |-> order_id,
                     estado |-> estado]
                ELSE IF categoria \in categorias_no_devolucion THEN
                    [kind |-> "CategoryExcluded", category |-> categoria]
                ELSE IF window_expired(days_since_order) THEN
                    [kind |-> "WindowExpired",
                     days_since_order |-> days_since_order]
                ELSE
                    [kind |-> "Dispatch", order_id |-> order_id,
                     customer_email |-> customer_email, reason |-> reason,
                     product |-> pedido.product,
                     quantity |-> pedido.quantity,
                     total |-> pedido.price * pedido.quantity,
                     order_date |-> order_date]

\* Variant: the window test runs before the category test
initiate_checks_window_first(d, order_id_arg, customer_email, reason, now) ==
    LET order_id == upper_strip(order_id_arg)
        found == rows_with_order_id(d, order_id)
    IN  IF found = <<>> THEN
            [kind |-> "NotFound", order_id |-> order_id]
        ELSE
            LET pedido == found[1]
                estado == pedido.estado
                categoria == pedido.category
                order_date == date(pedido.order_date)
                days_since_order == days_between(now, order_date)
            IN  IF estado # "recibido" THEN
                    [kind |-> "InvalidStatus", order_id |-> order_id,
                     estado |-> estado]
                ELSE IF window_expired(days_since_order) THEN
                    [kind |-> "WindowExpired",
                     days_since_order |-> days_since_order]
                ELSE IF categoria \in categorias_no_devolucion THEN
                    [kind |-> "CategoryExcluded", category |-> categoria]
                ELSE
                    [kind |-> "Dispatch", order_id |-> order_id,
                     customer_email |-> customer_email, reason |-> reason,
                     product |-> pedido.product,
                     quantity |-> pedido.quantity,
                     total |-> pedido.price * pedido.quantity,
                     order_date |-> order_date]

\* Variant: the category test is left out
initiate_checks_no_category(d, order_id_arg, customer_email, reason, now) ==
    LET order_id == upper_strip(order_id_arg)
        found == rows_with_order_id(d, order_id)
    IN  IF found = <<>> THEN
            [kind |-> "NotFound", order_id |-> order_id]
        ELSE
            LET pedido == found[1]
                estado == pedido.estado
                categoria == pedido.category
                order_date == date(pedido.order_date)
                days_since_order == days_between(now, order_date)
            IN  IF estado # "recibido" THEN
                    [kind |-> "InvalidStatus", order_id |-> order_id,
                     estado |-> estado]
                ELSE IF window_expired(days_since_order) THEN
                    [kind |-> "WindowExpired",
                     days_since_order |-> days_since_order]
                ELSE
                    [kind |-> "Dispatch", order_id |-> order_id,
                     customer_email |-> customer_email, reason |-> reason,
                     product |-> pedido.product,
                     quantity |-> pedido.quantity,
                     total |-> pedido.price * pedido.quantity,
                     order_date |-> order_date]

\* Lines 154-182: the lookup and the checks made before the e-mail is built.
\* kind "Dispatch" stands for falling through to the try block, with the
\* locals the try block reads.
initiate_checks(d, order_id_arg, customer_email, reason, now) ==
    LET order_id == upper_strip(order_id_arg)
        found == rows_with_order_id(d, order_id)
    IN  IF found = <<>> THEN
            [kind |-> "NotFound", order_id |-> order_id]
        ELSE
            LET pedido == found[1]
                estado == pedido.estado
                categoria == pedido.category
                order_date == date(pedido.order_date)
                days_since_order == days_between(now, order_date)
            IN  IF estado # "recibido" THEN
                    [kind |-> "InvalidStatus", order_id |-> order_id,
                     estado |-> estado]
                ELSE IF categoria \in categorias_no_devolucion THEN
                    [kind |-> "CategoryExcluded", category |-> categoria]
                ELSE IF window_expired(days_since_order) THEN
                    [kind |-> "WindowExpired",
                     days_since_order |-> days_since_order]
                ELSE
                    [kind |-> "Dispatch", order_id |-> order_id,
                     customer_email |-> customer_email, reason |-> reason,
                     product |-> pedido.product,
                     quantity |-> pedido.quantity,
                     total |-> pedido.price * pedido.quantity,
                     order_date |-> order_date]

\* What the SMTP session does to the call: it completes, or it raises
SmtpOutcomes ==
    {[how |-> "delivered"], [how |-> "SMTPAuthenticationError"]}
        \cup {[how |-> "Exception", text |-> t] :
                 t \in {"timed out", "connection refused"}}

\* Variant: no handler for the general exception, which leaves the function
initiate_outcome_unhandled(locals, smtp) ==
    CASE smtp.how = "delivered" ->
            [kind |-> "Sent", customer_email |-> locals.customer_email,
             order_id |-> locals.order_id, product |-> locals.product,
             total |-> locals.total]
      [] smtp.how = "SMTPAuthenticationError" ->
            [kind |-> "AuthenticationFailed"]
      [] smtp.how = "Exception" ->
            [kind |-> "Raised", exception |-> smtp.text]

\* Lines 190-275: the try block's return and its two except clauses
initiate_outcome(locals, smtp) ==
    CASE smtp.how = "delivered" ->
            [kind |-> "Sent", customer_email |-> locals.customer_email,
             order_id |-> locals.order_id, product |-> locals.product,
             total |-> locals.total]
      [] smtp.how = "SMTPAuthenticationError" ->
            [kind |-> "AuthenticationFailed"]
      [] smtp.how = "Exception" ->
            [kind |-> "DeliveryFailed", error |-> smtp.text,
             order_id |-> locals.order_id,
             customer_email |-> locals.customer_email]

\* Variant: a dispatched request marks its order as devuelto
df_marked_devuelto(d, order_id) ==
    [i \in 1..Len(d) |->
        IF d[i].order_id = order_id THEN [d[i] EXCEPT !.estado = "devuelto"]
        ELSE d[i]]

\* self.df after a call on order_id: no statement of the three tools
\* assigns to self.df or to one of its cells
df_after_call(d, order_id) == d

---------------------------------------------------------------------------
(* The tools on a self.df that has only the columns cols: a subscript of a  *)
(* column that is absent raises KeyError at the statement that reads it.    *)
(* The rows of d keep a filler value in an absent column; it is never read. *)

\* evaluate_return_eligibility: order_id at line 41; payment_method at line
\* 88, once the chain has reached it; price and quantity at line 102
evaluate_call(d, cols, order_id_arg, now) ==
    IF col_order_id \notin cols THEN KeyError(col_order_id)
    ELSE
        LET v == evaluate_return_eligibility(d, order_id_arg, now)
            reads ==
                IF v.kind = "Eligible"
                    THEN <<col_payment_method, col_price, col_quantity>>
                ELSE IF v.kind = "CashPaymentReviewRequired"
                    THEN <<col_payment_method>>
                ELSE <<>>
        IN  IF first_absent(reads, cols) # <<>>
            THEN KeyError(first_absent(reads, cols))
            ELSE v

\* search_customer_orders: customer_id at line 117; for each row found,
\* price and quantity at line 126 and order_id at line 129
search_call(d, cols, customer_id_arg, now) ==
    IF col_customer_id \notin cols THEN KeyError(col_customer_id)
    ELSE
        LET v == search_customer_orders(d, customer_id_arg, now)
            reads == IF v.kind = "Orders"
                     THEN <<col_price, col_quantity, col_order_id>>
                     ELSE <<>>
        IN  IF first_absent(reads, cols) # <<>>
            THEN KeyError(first_absent(reads, cols))
            ELSE v

\* initiate_return_request up to the try block: order_id at line 157;
\* price and quantity at line 182, once the checks have passed
initiate_call(d, cols, order_id_arg, customer_email, reason, now) ==
    IF col_order_id \notin cols THEN KeyError(col_order_id)
    ELSE
        LET r == initiate_checks(d, order_id_arg, customer_email, reason, now)
            reads == IF r.kind = "Dispatch"
                     THEN <<col_price, col_quantity>>
                     ELSE <<>>
        IN  IF first_absent(reads, cols) # <<>>
            THEN KeyError(first_absent(reads, cols))
            ELSE r

---------------------------------------------------------------------------
(* Actions *)

\* Tools(pedidos_df) runs at start-up
Load ==
    /\ startup.state = "unbuilt"
    /\ startup' = tools_init(pedidos_df)
    /\ IF startup'.state = "built"
       THEN /\ df' = [i \in 1..Len(pedidos_df.rows) |->
                        normalized_row(pedidos_df.rows[i])]
            /\ columns' = normalized_columns(pedidos_df.headers)
       ELSE UNCHANGED <<df, columns>>
    /\ loaded' = df'
    /\ UNCHANGED <<today, pc, frame, ret, smtp_sessions, pedidos_df>>

\* One call of evaluate_return_eligibility by caller c
Evaluate(c, order_id_arg) ==
    /\ startup.state = "built"
    /\ pc[c] = "idle"
    /\ ret' = [op |-> "evaluate", arg |-> order_id_arg,
               today |-> today,
               value |-> evaluate_call(df, columns, order_id_arg, today)]
    /\ UNCHANGED <<df, loaded, today, pc, frame, smtp_sessions>>
    /\ UNCHANGED <<pedidos_df, columns, startup>>

\* One call of search_customer_orders by caller c
Search(c, customer_id_arg) ==
    /\ startup.state = "built"
    /\ pc[c] = "idle"
    /\ ret' = [op |-> "search", arg |-> customer_id_arg,
               today |-> today,
               value |-> search_call(df, columns, customer_id_arg, today)]
    /\ UNCHANGED <<df, loaded, today, pc, frame, smtp_sessions>>
    /\ UNCHANGED <<pedidos_df, columns, startup>>

\* Caller c calls initiate_return_request: the checks run, and the call
\* either returns its rejection or enters the SMTP session and blocks there
InitiateCall(c, order_id_arg, customer_email, reason) ==
    /\ startup.state = "built"
    /\ pc[c] = "idle"
    /\ smtp_sessions < MaxSessions
    /\ UNCHANGED <<pedidos_df, columns, startup>>
    /\ LET r == initiate_call(df, columns, order_id_arg, customer_email,
                              reason, today)
       IN  IF r.kind = "Dispatch"
           THEN /\ pc' = [pc EXCEPT ![c] = "smtp"]
                /\ frame' = [frame EXCEPT ![c] =
                                [arg |-> order_id_arg, today |-> today,
                                 locals |-> r]]
                /\ smtp_sessions' = smtp_sessions + 1
                /\ df' = df_after_call(df, r.order_id)
                /\ UNCHANGED <<loaded, today, ret>>
           ELSE /\ ret' = [op |-> "initiate",
                           arg |-> order_id_arg, today |-> today,
                           customer_email |-> customer_email,
                           reason |-> reason,
                           smtp |-> [how |-> "not invoked"], value |-> r]
                /\ UNCHANGED <<df, loaded, today, pc, frame, smtp_sessions>>

\* The SMTP session of caller c ends and initiate_return_request returns
InitiateReturn(c, smtp) ==
    /\ pc[c] = "smtp"
    /\ ret' = [op |-> "initiate", arg |-> frame[c].arg,
               today |-> frame[c].today,
               customer_email |-> frame[c].locals.customer_email,
               reason |-> frame[c].locals.reason, smtp |-> smtp,
               value |-> initiate_outcome(frame[c].locals, smtp)]
    /\ pc' = [pc EXCEPT ![c] = "idle"]
    /\ frame' = [frame EXCEPT ![c] = NoFrame]
    /\ UNCHANGED <<df, loaded, today, smtp_sessions>>
    /\ UNCHANGED <<pedidos_df, columns, startup>>

SmtpDelivered(c) == InitiateReturn(c, [how |-> "delivered"])

SmtpAuthenticationError(c) ==
    InitiateReturn(c, [how |-> "SMTPAuthenticationError"])

SmtpException(c) ==
    \E smtp \in SmtpOutcomes : smtp.how = "Exception" /\ InitiateReturn(c, smtp)

\* Midnight passes
Tick ==
    /\ today < MaxToday
    /\ today' = today + 1
    /\ UNCHANGED <<df, loaded, pc, frame, ret, smtp_sessions>>
    /\ UNCHANGED <<pedidos_df, columns, startup>>

---------------------------------------------------------------------------
(* The policy engine on every single order: one row, every attribute *)

EvalRows ==
    [order_id : {O1}, customer_id : {C1}, product : {"bolsa de tela"},
     category : Categories, price : Prices, quantity : Quantities,
     order_date : Timestamps, payment_method : PaymentMethods,
     estado : Estados]

EvalInputs == { <<"o","1">>, <<"O","9">> }

\* No call has been made yet
InitCalls ==
    /\ today = 0
    /\ pc = [c \in Callers |-> "idle"]
    /\ frame = [c \in Callers |-> NoFrame]
    /\ ret = NoReturn
    /\ smtp_sessions = 0

\* Tools(...) has returned on a table that has every documented column
InitCommon ==
    /\ loaded = df
    /\ pedidos_df = [headers |-> DocumentedColumns, rows |-> df]
    /\ columns = DocumentedColumns
    /\ startup = [state |-> "built"]
    /\ InitCalls

InitEval ==
    /\ df \in {<<r>> : r \in EvalRows}
    /\ InitCommon

NextEval ==
    \/ \E c \in Callers, a \in EvalInputs : Evaluate(c, a)
    \/ Tick

SpecEval == InitEval /\ [][NextEval]_vars

---------------------------------------------------------------------------
(* The request initiator on every single order, with concurrent callers *)

Emails == {"ana@correo.co"}

Reasons == {"llegó roto"}

InitiateRows ==
    [order_id : {O1}, customer_id : {C1}, product : {"bolsa de tela"},
     category : Categories, price : {50000}, quantity : Quantities,
     order_date : Timestamps,
     payment_method : {<<"t","a","r","j","e","t","a">>,
                       <<"e","f","e","c","t","i","v","o">>},
     estado : Estados]

InitInitiate ==
    /\ df \in {<<r>> : r \in InitiateRows}
    /\ InitCommon

NextInitiate ==
    \/ \E c \in Callers, a \in EvalInputs, e \in Emails, m \in Reasons :
           InitiateCall(c, a, e, m)
    \/ \E c \in Callers : SmtpDelivered(c)
    \/ \E c \in Callers : SmtpAuthenticationError(c)
    \/ \E c \in Callers : SmtpException(c)
    \/ Tick

SpecInitiate == InitInitiate /\ [][NextInitiate]_vars

---------------------------------------------------------------------------
(* The three tools on stores of several rows, shared by the callers *)

StoreRow(o, k, estado, day, quantity) ==
    [order_id |-> o, customer_id |-> k, product |-> "bolsa de tela",
     category |-> "general", price |-> 50000, quantity |-> quantity,
     order_date |-> [day |-> day, time |-> "00:00:00"],
     payment_method |-> <<"t","a","r","j","e","t","a">>,
     estado |-> estado]

\* Two customers, two order ids; an order id may occur on two rows
StoreRows ==
    { StoreRow(O1, C1, "recibido", -3, 2),
      StoreRow(O1, C2, "enviado", -31, 1),
      StoreRow(O2, C1, "enviado", -31, 1) }

\* The sequences over S of length at most n
SeqUpTo(S, n) == UNION {[1..k -> S] : k \in 0..n}

OrderIdInputs == { O1, <<"o","1">>, <<" ","o","1","\t">>, <<"O","2"," ">> }

CustomerIdInputs == { C1, <<"c","1"," ">>, <<"c","2">> }

Init ==
    /\ df \in SeqUpTo(StoreRows, MaxOrders)
    /\ InitCommon

Next ==
    \/ \E c \in Callers, a \in OrderIdInputs : Evaluate(c, a)
    \/ \E c \in Callers, a \in CustomerIdInputs : Search(c, a)
    \/ \E c \in Callers, a \in OrderIdInputs, e \in Emails, m \in Reasons :
           InitiateCall(c, a, e, m)
    \/ \E c \in Callers : SmtpDelivered(c)
    \/ \E c \in Callers : SmtpAuthenticationError(c)
    \/ \E c \in Callers : SmtpException(c)
    \/ Tick

Spec == Init /\ [][Next]_vars

---------------------------------------------------------------------------
(* Start-up on tables that lack columns or hold a date that does not parse *)

\* A header as the file may write it: in lower case, or capitalised and
\* followed by a blank
HeaderSpellings == {"lower", "Capitalised"}

spelled_header(col, spelling) ==
    IF spelling = "lower" THEN col
    ELSE <<upper_char(col[1])>> \o SubSeq(col, 2, Len(col)) \o <<" ">>

\* One received order of 2 units bought 3 days before day 0 and paid by
\* card, as the file holds it; a column the file lacks keeps its cell here
\* as a filler that nothing reads
RawRow(order_date) ==
    [order_id |-> O1, customer_id |-> C1,
     product |-> <<"B","o","l","s","a"," ","d","e"," ","T","e","l","a">>,
     category |-> <<"G","e","n","e","r","a","l"," ">>,
     price |-> 50000, quantity |-> 2, order_date |-> order_date,
     payment_method |-> <<"t","a","r","j","e","t","a">>,
     estado |-> <<" ","R","e","c","i","b","i","d","o">>]

LoadSources ==
    { [headers |-> {spelled_header(col, sp) : col \in present},
       rows |-> <<RawRow(cell)>>] :
      present \in SUBSET DocumentedColumns, sp \in HeaderSpellings,
      cell \in {[day |-> -3, time |-> "00:00:00"], Unparseable} }

InitLoad ==
    /\ pedidos_df \in LoadSources
    /\ startup = [state |-> "unbuilt"]
    /\ columns = {}
    /\ df = <<>>
    /\ loaded = <<>>
    /\ InitCalls

NextLoad ==
    \/ Load
    \/ \E c \in Callers, a \in EvalInputs : Evaluate(c, a)
    \/ \E c \in Callers, a \in CustomerIdInputs : Search(c, a)
    \/ \E c \in Callers, a \in EvalInputs, e \in Emails, m \in Reasons :
           InitiateCall(c, a, e, m)
    \/ \E c \in Callers : SmtpDelivered(c)
    \/ \E c \in Callers : SmtpAuthenticationError(c)
    \/ \E c \in Callers : SmtpException(c)
    \/ Tick

SpecLoad == InitLoad /\ [][NextLoad]_vars

---------------------------------------------------------------------------
(* What the statements below say about a call, in the statements' own terms *)

\* c and d are the same letter up to case, or the same character
SameIgnoringCase(c, d) ==
    \/ c = d
    \/ \E i \in 1..Len(LowerLetters) : {c, d} = {LowerLetters[i], UpperLetters[i]}

\* text is the identifier id written in any letter case, with any whitespace
\* before and after it
Names(text, id) ==
    \E i \in 0..Len(text), j \in 0..Len(text) :
        /\ i + j + Len(id) = Len(text)
        /\ \A k \in 1..i : text[k] \in Whitespace
        /\ \A k \in (Len(text) - j + 1)..Len(text) : text[k] \in Whitespace
        /\ \A k \in 1..Len(id) : SameIgnoringCase(text[i + k], id[k])

EvaluateReturned == ret.op = "evaluate"

\* The rows whose order_id the argument of the last call names
NamedRows == {i \in 1..Len(df) : Names(ret.arg, df[i].order_id)}

\* evaluate has returned a verdict on an order record
Evaluated == EvaluateReturned /\ NamedRows # {}

\* The order record the last evaluate call judged
Subject == df[SetMin(NamedRows)]

SubjectAge == ret.today - Subject.order_date.day

PolicyOrder ==
    <<"AlreadyReturned", "NotShipped", "InTransit", "CategoryExcluded",
      "WindowExpired", "PersonalizedReviewRequired",
      "CashPaymentReviewRequired", "Eligible">>

IsEfectivo(text) ==
    /\ Len(text) = Len(<<"e","f","e","c","t","i","v","o">>)
    /\ \A k \in 1..Len(text) :
           SameIgnoringCase(text[k], <<"e","f","e","c","t","i","v","o">>[k])

RuleMatches(rule, o, age) ==
    CASE rule = "AlreadyReturned" -> o.estado = "devuelto"
      [] rule = "NotShipped" -> o.estado = "sin enviar"
      [] rule = "InTransit" -> o.estado = "enviado"
      [] rule = "CategoryExcluded" ->
             o.category \in {"higiene", "software", "tarjetas de regalo"}
      [] rule = "WindowExpired" -> age > 30
      [] rule = "PersonalizedReviewRequired" -> o.category = "personalizado"
      [] rule = "CashPaymentReviewRequired" -> IsEfectivo(o.payment_method)
      [] rule = "Eligible" -> TRUE

FirstMatchingRule(o, age) ==
    PolicyOrder[SetMin({k \in 1..Len(PolicyOrder) :
                            RuleMatches(PolicyOrder[k], o, age)})]

StatusBlocked(o) == o.estado \in {"devuelto", "sin enviar", "enviado"}

CategoryBlocked(o) == o.category \in {"higiene", "software", "tarjetas de regalo"}

---------------------------------------------------------------------------
(* C1: for every order record and every today, the verdict of evaluate is   *)
(* the outcome of the first rule that matches in the order AlreadyReturned, *)
(* NotShipped, InTransit, CategoryExcluded, WindowExpired,                  *)
(* PersonalizedReviewRequired, CashPaymentReviewRequired, Eligible; a later *)
(* rule never overrides an earlier matching one.                            *)
C1_FirstMatchingRuleWins ==
    Evaluated => ret.value.kind = FirstMatchingRule(Subject, SubjectAge)

\* A personalizado order paid in efectivo, within the window, is reported
\* as PersonalizedReviewRequired
C1_Witness ==
    /\ Evaluated
    /\ Subject.category = "personalizado"
    /\ IsEfectivo(Subject.payment_method)
    /\ Subject.estado = "recibido"
    /\ SubjectAge <= 30
    /\ ret.value.kind = "PersonalizedReviewRequired"

(* C2: an order whose estado is devuelto, sin enviar or enviado is judged   *)
(* AlreadyReturned, NotShipped or InTransit respectively, whatever its      *)
(* category, date and payment method, and the category and date tests are   *)
(* not reached: no later condition is evaluated and no days_since_order is  *)
(* computed into the verdict.                                               *)
C2_StatusRulesFirst ==
    (Evaluated /\ StatusBlocked(Subject)) =>
        /\ Subject.estado = "devuelto" => ret.value.kind = "AlreadyReturned"
        /\ Subject.estado = "sin enviar" => ret.value.kind = "NotShipped"
        /\ Subject.estado = "enviado" => ret.value.kind = "InTransit"
        /\ \A k \in 1..Len(ret.value.evaluated) :
               ret.value.evaluated[k] \in {"AlreadyReturned", "NotShipped", "InTransit"}
        /\ "days_since_order" \notin DOMAIN ret.value
        /\ "category" \notin DOMAIN ret.value

\* A devuelto order of an excluded category, older than the window
C2_Witness ==
    /\ Evaluated
    /\ Subject.estado = "devuelto"
    /\ Subject.category = "higiene"
    /\ SubjectAge > 30
    /\ ret.value.kind = "AlreadyReturned"

(* C3: an order of category higiene, software or tarjetas de regalo whose   *)
(* estado is none of devuelto, sin enviar, enviado (recibido or an          *)
(* unrecognised estado) is judged CategoryExcluded whatever its date and    *)
(* payment method, never Eligible.                                          *)
C3_ExcludedCategory ==
    (Evaluated /\ CategoryBlocked(Subject) /\ ~StatusBlocked(Subject)) =>
        ret.value.kind = "CategoryExcluded"

\* A software order with an unrecognised estado, bought 3 days ago
C3_Witness ==
    /\ Evaluated
    /\ Subject.category = "software"
    /\ Subject.estado = "cancelado"
    /\ SubjectAge < 30
    /\ ret.value.kind = "CategoryExcluded"

(* C4: an order caught by neither the estado rules nor the category rule is *)
(* judged WindowExpired exactly when today - order_date, in whole calendar  *)
(* days, is strictly greater than 30, and the verdict then carries that     *)
(* number of days; 30 days or fewer (a future date included) is not         *)
(* WindowExpired.                                                           *)
C4_WindowStrictlyOver30 ==
    (Evaluated /\ ~StatusBlocked(Subject) /\ ~CategoryBlocked(Subject)) =>
        /\ (ret.value.kind = "WindowExpired") <=> (SubjectAge > 30)
        /\ ret.value.kind = "WindowExpired" =>
               ret.value.days_since_order = SubjectAge

\* An order exactly 30 days old, bought in the evening, is still inside
C4_Witness ==
    /\ Evaluated
    /\ ~StatusBlocked(Subject) /\ ~CategoryBlocked(Subject)
    /\ SubjectAge = 30
    /\ Subject.order_date.time = "18:30:00"
    /\ ret.value.kind # "WindowExpired"

---------------------------------------------------------------------------
InitiateReturned == ret.op = "initiate"

\* The rows an order_id argument names, and the first of them
RowsNamedBy(text) == {i \in 1..Len(df) : Names(text, df[i].order_id)}

FirstNamedBy(text) == df[SetMin(RowsNamedBy(text))]

\* The conditions under which a return request may be sent for order o
MayNotify(o, age) ==
    /\ o.estado = "recibido"
    /\ ~CategoryBlocked(o)
    /\ age <= 30

(* C6: initiate invokes the notification collaborator only if the order     *)
(* exists, its estado is exactly recibido, its category is returnable and   *)
(* days_since_order <= 30; on an order whose estado is not recibido it      *)
(* returns the InvalidStatus rejection and the collaborator is not invoked. *)
C6_NotifyOnlyWhenChecksPass ==
    /\ \A c \in Callers :
           pc[c] = "smtp" =>
               /\ RowsNamedBy(frame[c].arg) # {}
               /\ MayNotify(FirstNamedBy(frame[c].arg),
                            frame[c].today - FirstNamedBy(frame[c].arg).order_date.day)
    /\ (InitiateReturned /\ ret.smtp.how # "not invoked") =>
           /\ NamedRows # {}
           /\ MayNotify(Subject, SubjectAge)
    /\ (InitiateReturned /\ NamedRows # {} /\ Subject.estado # "recibido") =>
           /\ ret.value.kind = "InvalidStatus"
           /\ ret.smtp.how = "not invoked"

\* initiate on an order in transit: rejected, nothing sent
C6_Witness ==
    /\ InitiateReturned
    /\ NamedRows # {}
    /\ Subject.estado = "enviado"
    /\ ret.value.kind = "InvalidStatus"
    /\ ret.smtp.how = "not invoked"
    /\ smtp_sessions = 0

(* C7: once the checks have passed, a failure of the notification           *)
(* collaborator is returned as an ordinary value, never raised to the       *)
(* caller; an authentication failure and any other failure give different   *)
(* outcomes; the outcome is Sent only when the delivery completed.          *)
C7_NotificationFailureIsAValue ==
    (InitiateReturned /\ ret.smtp.how # "not invoked") =>
        /\ ret.value.kind \in {"Sent", "AuthenticationFailed", "DeliveryFailed"}
        /\ (ret.value.kind = "Sent") <=> (ret.smtp.how = "delivered")
        /\ (ret.value.kind = "AuthenticationFailed") <=>
               (ret.smtp.how = "SMTPAuthenticationError")
        /\ (ret.value.kind = "DeliveryFailed") <=> (ret.smtp.how = "Exception")

\* The session raised a general exception and the call still returned
C7_Witness ==
    /\ InitiateReturned
    /\ ret.smtp.how = "Exception"
    /\ ret.value.kind = "DeliveryFailed"

\* a and b differ only in letter case or in surrounding whitespace
SameUpToCaseAndPadding(a, b) ==
    \E i \in 0..Len(a), j \in 0..Len(a), k \in 0..Len(b), l \in 0..Len(b) :
        /\ i + j <= Len(a)
        /\ k + l <= Len(b)
        /\ Len(a) - i - j = Len(b) - k - l
        /\ \A t \in 1..i : a[t] \in Whitespace
        /\ \A t \in (Len(a) - j + 1)..Len(a) : a[t] \in Whitespace
        /\ \A t \in 1..k : b[t] \in Whitespace
        /\ \A t \in (Len(b) - l + 1)..Len(b) : b[t] \in Whitespace
        /\ \A t \in 1..(Len(a) - i - j) : SameIgnoringCase(a[i + t], b[k + t])

\* What initiate_return_request returns on the store d when its SMTP
\* session, if it opens one, ends as smtp did
InitiateOn(d, arg, customer_email, reason, now, smtp) ==
    LET r == initiate_checks(d, arg, customer_email, reason, now)
    IN  IF r.kind = "Dispatch" /\ smtp.how # "not invoked"
        THEN initiate_outcome(r, smtp)
        ELSE r

(* C8: two order_id inputs that differ only in letter case or surrounding   *)
(* whitespace resolve to the same record, or both to none: evaluate and     *)
(* initiate return for the one what they return for the other.              *)
C8_LookupIgnoresCaseAndPadding ==
    \A b \in OrderIdInputs :
        (ret.op \in {"evaluate", "initiate"} /\ SameUpToCaseAndPadding(ret.arg, b)) =>
            /\ ret.op = "evaluate" =>
                   ret.value = evaluate_return_eligibility(df, b, ret.today)
            /\ ret.op = "initiate" =>
                   ret.value = InitiateOn(df, b, ret.customer_email, ret.reason,
                                          ret.today, ret.smtp)

\* A lower-case, padded order id finds the order its upper-case form finds
C8_Witness ==
    /\ ret.op = "evaluate"
    /\ ret.arg = <<" ","o","1","\t">>
    /\ ret.value.kind \notin {"NotFound"}
    /\ ret.value = evaluate_return_eligibility(df, O1, ret.today)

\* The rows of the customer the argument of the last call names
OwnedRows == {i \in 1..Len(df) : Names(ret.arg, df[i].customer_id)}

\* The n-th owned row in storage order
NthOwned(n) ==
    CHOOSE i \in OwnedRows : Cardinality({j \in OwnedRows : j <= i}) = n

(* C9: summarize_orders returns NotFound for a customer who owns no order;  *)
(* for a customer who owns N >= 1 orders it returns exactly N summaries,    *)
(* one per owned order and none of another customer, in storage order, each *)
(* with days_since_order = today - order_date and total = price * quantity. *)
C9_OneSummaryPerOwnedOrder ==
    ret.op = "search" =>
        /\ OwnedRows = {} => ret.value.kind = "NotFound"
        /\ OwnedRows # {} =>
               /\ ret.value.kind = "Orders"
               /\ Len(ret.value.lines) = Cardinality(OwnedRows)
               /\ \A n \in 1..Len(ret.value.lines) :
                      LET o == df[NthOwned(n)]
                          line == ret.value.lines[n]
                      IN  /\ line.order_id = o.order_id
                          /\ line.estado = o.estado
                          /\ line.days_ago = ret.today - o.order_date.day
                          /\ line.total = o.price * o.quantity

\* The customer's order stored second is listed alone: the first row is
\* another customer's
C9_Witness ==
    /\ ret.op = "search"
    /\ Len(df) = 2
    /\ OwnedRows = {2}
    /\ ret.value.kind = "Orders"
    /\ Len(ret.value.lines) = 1
    /\ ret.value.lines[1].order_id = df[2].order_id

\* What the last call returns when it runs alone on the loaded store
ResultAlone ==
    CASE ret.op = "evaluate" ->
             evaluate_return_eligibility(loaded, ret.arg, ret.today)
      [] ret.op = "search" ->
             search_customer_orders(loaded, ret.arg, ret.today)
      [] ret.op = "initiate" ->
             InitiateOn(loaded, ret.arg, ret.customer_email, ret.reason,
                        ret.today, ret.smtp)

(* C10: the order store is read-only after load: after any interleaving of  *)
(* evaluate, summarize_orders and initiate calls, whatever their outcome,   *)
(* every order record is as loaded, and each call returns what it returns   *)
(* when run alone on the loaded store with the same today.                  *)
C10_StoreReadOnly ==
    /\ df = loaded
    /\ ret.op # "none" => ret.value = ResultAlone

\* A request was delivered while another caller is inside its SMTP session
C10_Witness ==
    /\ InitiateReturned
    /\ ret.smtp.how = "delivered"
    /\ \E c \in Callers : pc[c] = "smtp"
    /\ smtp_sessions = 2
    /\ df = loaded

---------------------------------------------------------------------------
\* The table handed to Tools(...) has the column, in any letter case
SourceHasColumn(col) == \E h \in pedidos_df.headers : Names(h, col)

SourceDatesParse ==
    \A i \in 1..Len(pedidos_df.rows) :
        pedidos_df.rows[i].order_date # Unparseable

(* C11: load fails, and start-up stops, whenever one of the columns         *)
(* order_id, customer_id, product, category, price, quantity, order_date,   *)
(* payment_method, estado is missing from the source or an order_date does  *)
(* not parse; so no store that lacks one of them is ever built, and no      *)
(* later evaluate, summarize_orders or initiate call fails on a missing     *)
(* column.                                                                  *)
C11_LoadRejectsIncompleteSource ==
    /\ startup.state = "built" =>
           /\ \A col \in DocumentedColumns : SourceHasColumn(col)
           /\ SourceDatesParse
    /\ ret.op # "none" => ret.value.kind # "KeyError"

\* The part of C11 the code does keep: a source that lacks product,
\* category, estado or order_date, or holds a date that does not parse,
\* never yields a store
LoadRejectsWhatInitReads ==
    startup.state = "built" =>
        /\ \A col \in {col_product, col_category, col_estado, col_order_date} :
               SourceHasColumn(col)
        /\ SourceDatesParse

\* A store built without the price column, on which evaluate then raised
LoadedWithoutPriceThenKeyError ==
    /\ startup.state = "built"
    /\ ~SourceHasColumn(col_price)
    /\ ret.op = "evaluate"
    /\ ret.value = KeyError(col_price)

---------------------------------------------------------------------------
(* C12: initiate reports the first failing step, in the order: the order is *)
(* absent (OrderNotFound), else its estado is not recibido (InvalidStatus), *)
(* else its category is non-returnable (CategoryExcluded), else             *)
(* days_since_order > 30 (WindowExpired).                                   *)
C12_FirstFailingStepReported ==
    InitiateReturned =>
        IF NamedRows = {} THEN ret.value.kind = "NotFound"
        ELSE IF Subject.estado # "recibido" THEN ret.value.kind = "InvalidStatus"
        ELSE IF CategoryBlocked(Subject) THEN ret.value.kind = "CategoryExcluded"
        ELSE IF SubjectAge > 30 THEN
            /\ ret.value.kind = "WindowExpired"
            /\ ret.value.days_since_order = SubjectAge
        ELSE ret.value.kind \notin
                 {"NotFound", "InvalidStatus", "CategoryExcluded", "WindowExpired"}

\* A received higiene order older than 30 days is rejected for its category
C12_Witness ==
    /\ InitiateReturned
    /\ NamedRows # {}
    /\ Subject.estado = "recibido"
    /\ Subject.category = "higiene"
    /\ SubjectAge > 30
    /\ ret.value.kind = "CategoryExcluded"

(* C13: the message returned to the user depends on the kind of outcome     *)
(* only, not on the text of the exception: two initiate calls on the same   *)
(* order, e-mail, reason and today whose notification fails with general    *)
(* failures of different text return the same message.                      *)
C13_MessageIgnoresExceptionText ==
    (InitiateReturned /\ ret.smtp.how = "Exception") =>
        \A other \in SmtpOutcomes :
            other.how = "Exception" =>
                InitiateOn(df, ret.arg, ret.customer_email, ret.reason,
                           ret.today, other) = ret.value

ReviewOrEligible ==
    {"PersonalizedReviewRequired", "CashPaymentReviewRequired", "Eligible"}

\* The verdict of evaluate on the order that text names, on day now
VerdictKind(text, now) == evaluate_return_eligibility(df, text, now).kind

(* C14: the checks of initiate agree with evaluate: when initiate passes    *)
(* its checks and reaches the dispatch, evaluate on the same order and      *)
(* today returns PersonalizedReviewRequired, CashPaymentReviewRequired or   *)
(* Eligible; and when the estado is recibido and evaluate returns one of    *)
(* these three, initiate reaches the dispatch.                              *)
C14_InitiateAgreesWithEvaluate ==
    /\ \A c \in Callers :
           pc[c] = "smtp" =>
               VerdictKind(frame[c].arg, frame[c].today) \in ReviewOrEligible
    /\ (InitiateReturned /\ ret.smtp.how # "not invoked") =>
           VerdictKind(ret.arg, ret.today) \in ReviewOrEligible
    /\ (InitiateReturned /\ NamedRows # {} /\ Subject.estado = "recibido"
            /\ VerdictKind(ret.arg, ret.today) \in ReviewOrEligible) =>
           ret.smtp.how # "not invoked"

\* A request for an order paid in cash was dispatched; evaluate flags the
\* same order for review
C14_Witness ==
    /\ InitiateReturned
    /\ ret.smtp.how = "delivered"
    /\ IsEfectivo(Subject.payment_method)
    /\ VerdictKind(ret.arg, ret.today) = "CashPaymentReviewRequired"

\* The order, as loaded, that text names may have a request sent on day now
MayNotifyLoaded(text, now) ==
    LET named == {i \in 1..Len(loaded) : Names(text, loaded[i].order_id)}
    IN  /\ named # {}
        /\ MayNotify(loaded[SetMin(named)],
                     now - loaded[SetMin(named)].order_date.day)

\* This step is an initiate call that returns a rejection
RejectionStep ==
    /\ ret' # ret
    /\ ret'.op = "initiate"
    /\ ret'.smtp.how = "not invoked"

(* C15: initiate records nothing and does not deduplicate: after a dispatch *)
(* for an order, whatever its outcome, the order's estado is still recibido *)
(* (never devuelto), and every later initiate call for that order, today    *)
(* still within the window, passes the checks again and invokes the         *)
(* notification collaborator once more: k calls, k dispatches.              *)
C15_NoRecordNoDeduplication ==
    /\ [](\A c \in Callers :
              pc[c] = "smtp" => FirstNamedBy(frame[c].arg).estado = "recibido")
    /\ []((InitiateReturned /\ ret.smtp.how # "not invoked") =>
              Subject.estado = "recibido")
    /\ [][ /\ RejectionStep => ~MayNotifyLoaded(ret'.arg, ret'.today)
           /\ \A c \in Callers :
                  (pc[c] = "idle" /\ pc'[c] = "smtp") =>
                      smtp_sessions' = smtp_sessions + 1 ]_vars

\* A first request for the order was delivered, and a later call, made on a
\* later day, is inside its own SMTP session for the same order
C15_Witness ==
    /\ InitiateReturned
    /\ ret.smtp.how = "delivered"
    /\ smtp_sessions = 2
    /\ \E c \in Callers :
           /\ pc[c] = "smtp"
           /\ frame[c].today > ret.today
           /\ Names(frame[c].arg, Subject.order_id)
    /\ Subject.estado = "recibido"

===========================================================================
